---- MODULE Spec2Model ----
(***************************************************************************)
(* Model of data/get_data.py of recession-mrf: the credential check, the   *)
(* per-series predictor fetch with its derived spreads, the FRED-MD panel  *)
(* fetch, the monthly alignment and merge (create_mrf_dataset) and the     *)
(* top-level script that writes data/mrf_dataset.csv and                   *)
(* data/mrf_positions.json.                                                *)
(*                                                                         *)
(* Timestamps are integers YYYYMMDD (ordered as the dates are).  A table   *)
(* (pandas DataFrame) is a record                                          *)
(*     [index   : set of timestamps,                                       *)
(*      columns : sequence of column names,                                *)
(*      row     : [index -> sequence of values, one per column]]           *)
(* and a series is [index : set of timestamps, val : [index -> value]].    *)
(* A missing value is NaN.                                                 *)
(***************************************************************************)
EXTENDS Integers, Sequences, FiniteSets, TLC

\* ------------------------------------------------------------------ bounds
\* Fixture tables cover months 1..MaxMonth counted from 2000-01.
MaxMonth == 9
\* Number of consecutive executions of the script over the same data/ directory.
MaxRuns == 2

\* ------------------------------------------------------------- basic values
\* pandas' missing value (what dropna looks for)
NaN == -1000

\* Python's None (a fetch that produced no table)
None == [none |-> TRUE]

SetMax(S) == CHOOSE x \in S : \A y \in S : y <= x

SetMin(S) == CHOOSE x \in S : \A y \in S : x <= y

\* range(a, b) as a Python list
Range(a, b) == [k \in 1..(IF b > a THEN b - a ELSE 0) |-> a + k - 1]

\* the elements of a sequence
Elems(s) == {s[k] : k \in 1..Len(s)}

\* ------------------------------------------------------------ calendar
YearOf(d) == d \div 10000

MonthOf(d) == (d \div 100) % 100

IsLeap(y) == (y % 4 = 0 /\ y % 100 # 0) \/ y % 400 = 0

DaysInMonth(y, m) ==
    IF m = 2 THEN (IF IsLeap(y) THEN 29 ELSE 28)
    ELSE IF m \in {4, 6, 9, 11} THEN 30 ELSE 31

MkDate(y, m, d) == y * 10000 + m * 100 + d

\* months since year 0, so that consecutive calendar months are consecutive integers
MonthIndex(d) == YearOf(d) * 12 + MonthOf(d) - 1

\* the label resample('M') gives the bin of month number k: the month's last day
MonthEndOfIndex(k) == MkDate(k \div 12, (k % 12) + 1, DaysInMonth(k \div 12, (k % 12) + 1))

\* the month-end bin a timestamp falls in
MonthEnd(d) == MonthEndOfIndex(MonthIndex(d))

\* the calendar month of a timestamp, as year * 100 + month (strftime('%Y-%m'))
YearMonth(d) == d \div 100

\* ------------------------------------------------------------ table operations
EmptyRows == [d \in {} |-> <<>>]

\* df.resample('M').last(): one row per calendar month from the month of the first
\* timestamp to the month of the last one, labelled by the month's last day; each
\* column holds the last non-missing value observed in that month, NaN if none.
ResampleLast(t) ==
    IF t.index = {} THEN [index |-> {}, columns |-> t.columns, row |-> EmptyRows]
    ELSE
    LET lo == MonthIndex(SetMin(t.index))
        hi == MonthIndex(SetMax(t.index))
        bins == {MonthEndOfIndex(k) : k \in lo..hi}
    IN  [index |-> bins, columns |-> t.columns,
         row |-> [b \in bins |->
                    LET ds == {d \in t.index : YearMonth(d) = YearMonth(b)}
                    IN  [c \in 1..Len(t.columns) |->
                            LET obs == {d \in ds : t.row[d][c] # NaN}
                            IN  IF obs = {} THEN NaN ELSE t.row[SetMax(obs)][c]]]]

\* (variant of Loc: the bounds compared by calendar month)
LocMonthly(t, start, end) ==
    LET keep == {d \in t.index : YearMonth(start) <= YearMonth(d) /\ YearMonth(d) <= YearMonth(end)}
    IN  [index |-> keep, columns |-> t.columns, row |-> [d \in keep |-> t.row[d]]]

\* df.loc[start:end] on a sorted DatetimeIndex: the rows whose label lies in
\* [start, end], both ends included; no row when start > end.
Loc(t, start, end) ==
    LET keep == {d \in t.index : start <= d /\ d <= end}
    IN  [index |-> keep, columns |-> t.columns, row |-> [d \in keep |-> t.row[d]]]

\* position of the column called name
ColumnOf(t, name) == CHOOSE c \in 1..Len(t.columns) : t.columns[c] = name

\* df[[names]]: the named columns in the order asked for; KeyError when one is absent
HasColumns(t, names) == \A k \in 1..Len(names) : names[k] \in Elems(t.columns)

Select(t, names) ==
    [index |-> t.index, columns |-> names,
     row |-> [d \in t.index |-> [k \in 1..Len(names) |-> t.row[d][ColumnOf(t, names[k])]]]]

\* (variant of DropColumn: nothing is dropped)
DropKeepsAll(t, name) == t

\* df.drop(columns=[name], errors='ignore'): every column but those called name,
\* in their order; a table without such a column is returned as it is
DropColumn(t, name) ==
    LET keep == SelectSeq([c \in 1..Len(t.columns) |-> c], LAMBDA c : t.columns[c] # name)
    IN  [index |-> t.index, columns |-> [k \in 1..Len(keep) |-> t.columns[keep[k]]],
         row |-> [d \in t.index |-> [k \in 1..Len(keep) |-> t.row[d][keep[k]]]]]

\* a table's row at d, NaN in every column when the table has no such row
RowOrNaN(t, d) == IF d \in t.index THEN t.row[d] ELSE [c \in 1..Len(t.columns) |-> NaN]

\* pd.concat([a, b, c], axis=1): the columns of a, then b, then c, over the union
\* of the three indexes
Concat3(a, b, c) ==
    LET idx == a.index \cup b.index \cup c.index
    IN  [index |-> idx, columns |-> a.columns \o b.columns \o c.columns,
         row |-> [d \in idx |-> RowOrNaN(a, d) \o RowOrNaN(b, d) \o RowOrNaN(c, d)]]

\* df.dropna(): the rows without any missing value
DropNa(t) ==
    LET keep == {d \in t.index : \A c \in 1..Len(t.columns) : t.row[d][c] # NaN}
    IN  [index |-> keep, columns |-> t.columns, row |-> [d \in keep |-> t.row[d]]]

\* ------------------------------------------------------- create_mrf_dataset
\* line 105: the target column
TargetColumns == <<"recession_indicator">>

\* (variant of XColumns: the unemployment rate is not selected)
XColumnsNoUnrate == <<"yield_spread", "credit_spread", "industrial_production">>

\* line 106: the X variables, in the order selected
XColumns == <<"unemployment_rate", "yield_spread", "credit_spread", "industrial_production">>

start_date(recession_predictors, fredmd_data) ==
    LET a == SetMin(recession_predictors.index)
        b == SetMin(fredmd_data.index)
    IN  IF a >= b THEN a ELSE b

end_date(recession_predictors, fredmd_data) ==
    LET a == SetMax(recession_predictors.index)
        b == SetMax(fredmd_data.index)
    IN  IF a <= b THEN a ELSE b

\* (variant of Positions: S_pos starts one column late)
PositionsShifted(x_variables, mrf_data) ==
    [y_pos |-> 0,
     x_pos |-> Range(1, Len(x_variables.columns) + 1),
     S_pos |-> Range(Len(x_variables.columns) + 2, Len(mrf_data.columns))]

\* lines 118-122: the position map built from the X sub-table and the merged table
Positions(x_variables, mrf_data) ==
    [y_pos |-> 0,
     x_pos |-> Range(1, Len(x_variables.columns) + 1),
     S_pos |-> Range(Len(x_variables.columns) + 1, Len(mrf_data.columns))]

\* create_mrf_dataset(recession_predictors, fredmd_data): the merged table and its
\* position map, or the KeyError of a column selection
create_mrf_dataset(recession_predictors, fredmd_data) ==
    LET start == start_date(recession_predictors, fredmd_data)
        end == end_date(recession_predictors, fredmd_data)
        predictors_monthly == ResampleLast(recession_predictors)
        fredmd_monthly == ResampleLast(fredmd_data)
        predictors_aligned == Loc(predictors_monthly, start, end)
        fredmd_aligned == Loc(fredmd_monthly, start, end)
    IN  IF ~HasColumns(predictors_aligned, TargetColumns) \/ ~HasColumns(predictors_aligned, XColumns)
        THEN [ok |-> FALSE, error |-> "KeyError"]
        ELSE LET target_col == Select(predictors_aligned, TargetColumns)
                 x_variables == Select(predictors_aligned, XColumns)
                 fredmd_clean == DropColumn(fredmd_aligned, "USREC")
                 mrf_data == DropNa(Concat3(target_col, x_variables, fredmd_clean))
             IN  [ok |-> TRUE, mrf_data |-> mrf_data,
                  positions |-> Positions(x_variables, mrf_data)]

\* ------------------------------------------------------- get_fred_api_key
\* os.getenv('FRED_API_KEY') of an environment without the variable
Unset == "<unset>"

\* (variant of KeyMissing: only None counts as missing)
KeyMissingUnsetOnly(api_key) == api_key = Unset

\* `not api_key`: the variable is unset (None) or set to the empty string
KeyMissing(api_key) == api_key = Unset \/ api_key = ""

\* get_fred_api_key(): the key, or the ValueError with the remediation steps
get_fred_api_key(api_key) ==
    IF KeyMissing(api_key) THEN [ok |-> FALSE, error |-> "ValueError"]
    ELSE [ok |-> TRUE, value |-> api_key]

\* ------------------------------------------------------- get_recession_predictors
\* the dict `series`, in insertion order: <<FRED identifier, column name>>
series ==
    << <<"USREC", "recession_indicator">>,
       <<"INDPRO", "industrial_production">>,
       <<"PAYEMS", "nonfarm_payrolls">>,
       <<"UNRATE", "unemployment_rate">>,
       <<"DGS10", "treasury_10y">>,
       <<"DGS3MO", "treasury_3m">>,
       <<"BAAFFM", "baa_corporate_yield">>,
       <<"AAAFFM", "aaa_corporate_yield">> >>

\* pd.DataFrame(data) for a dict of series, given as the sequence of its
\* <<name, series>> items: one column per item over the union of the indexes
DataFrame(data) ==
    LET idx == UNION {data[k][2].index : k \in 1..Len(data)}
    IN  [index |-> idx, columns |-> [k \in 1..Len(data) |-> data[k][1]],
         row |-> [d \in idx |-> [k \in 1..Len(data) |->
                     IF d \in data[k][2].index THEN data[k][2].val[d] ELSE NaN]]]

\* a - b on two cells
Sub(a, b) == IF a = NaN \/ b = NaN THEN NaN ELSE a - b

\* df[name] = df[left] - df[right], for a name df does not have yet
WithDifference(df, name, left, right) ==
    [index |-> df.index, columns |-> Append(df.columns, name),
     row |-> [d \in df.index |->
                Append(df.row[d], Sub(df.row[d][ColumnOf(df, left)], df.row[d][ColumnOf(df, right)]))]]

\* the base columns the two derived spreads read
SpreadBases == <<"treasury_10y", "treasury_3m", "baa_corporate_yield", "aaa_corporate_yield">>

\* (variant of derive_features: a spread whose base is missing is skipped)
derive_features_lenient(data) ==
    LET df == DataFrame(data)
    IN  IF ~HasColumns(df, SpreadBases) THEN [ok |-> TRUE, value |-> df]
        ELSE [ok |-> TRUE,
              value |-> WithDifference(
                          WithDifference(df, "yield_spread", "treasury_10y", "treasury_3m"),
                          "credit_spread", "baa_corporate_yield", "aaa_corporate_yield")]

\* lines 56-62: the table of the fetched series with the two spreads, or the
\* KeyError of a spread whose base column was not fetched
derive_features(data) ==
    LET df == DataFrame(data)
    IN  IF ~HasColumns(df, SpreadBases) THEN [ok |-> FALSE, error |-> "KeyError"]
        ELSE [ok |-> TRUE,
              value |-> WithDifference(
                          WithDifference(df, "yield_spread", "treasury_10y", "treasury_3m"),
                          "credit_spread", "baa_corporate_yield", "aaa_corporate_yield")]

\* ------------------------------------------------------------------ fixtures
\* the k-th month counted from 2000-01, on its first or on its last day
FixtureDate(k, style) ==
    LET n == 2000 * 12 + (k - 1)
        y == n \div 12
        m == (n % 12) + 1
    IN  MkDate(y, m, IF style = "first" THEN 1 ELSE DaysInMonth(y, m))

DayStyles == {"first", "last"}

\* a monthly series over months first..last with value v, missing in month gap
MonthlySeries(first, last, style, v, gap) ==
    [index |-> {FixtureDate(k, style) : k \in first..last},
     val |-> [d \in {FixtureDate(k, style) : k \in first..last} |->
                IF gap > 0 /\ d = FixtureDate(gap, style) THEN NaN ELSE v]]

\* what a successful fetch of each identifier gives over months first..last
\* (unemployment_rate missing in month gap)
FixtureData(first, last, style, gap) ==
    [k \in 1..Len(series) |->
        <<series[k][2],
          MonthlySeries(first, last, style, k + 1, IF series[k][1] = "UNRATE" THEN gap ELSE 0)>>]

\* a panel with the given columns over months first..last (its first column
\* missing in month gap)
PanelFixture(first, last, style, cols, gap) ==
    [index |-> {FixtureDate(k, style) : k \in first..last},
     columns |-> cols,
     row |-> [d \in {FixtureDate(k, style) : k \in first..last} |->
                [c \in 1..Len(cols) |->
                    IF c = 1 /\ gap > 0 /\ d = FixtureDate(gap, style) THEN NaN ELSE 10 + c]]]

PanelColumnChoices ==
    {<<"USREC">>, <<"RPI">>, <<"RPI", "USREC", "INDPRO">>}

\* months in which a fixture has a missing value (0: none)
GapChoices == {0, 4}

\* what fred.get_series returns for the k-th identifier when the call succeeds
FetchedSeries(k) == FixtureData(1, 3, "first", 0)[k]

\* what pd.read_csv of the FRED-MD file gives, indexed by sasdate, when it succeeds
FetchedPanels == {PanelFixture(1, 3, "first", cols, 0) : cols \in PanelColumnChoices}

\* ------------------------------------------------------------------ state
VARIABLES
    pc,                   \* where the script (or the direct call of the merge) stands
    run,                  \* number of the current execution of the script
    FRED_API_KEY,         \* the environment variable, after load_dotenv()
    i,                    \* position of the fetch loop in `series`
    data,                 \* the dict `data`: <<name, series>> items in insertion order
    network,              \* the remote requests made in this run, in order
    recession_predictors, \* the predictor table, None before it is built
    fredmd_data,          \* the panel table, None when absent
    result,               \* what create_mrf_dataset returned, None before the call
    csvFile,              \* data/mrf_dataset.csv: None, [run, table], or [run, partial]
    posFile,              \* data/mrf_positions.json: None, [run, positions], or [run, partial]
    log,                  \* what the run printed, as message tags
    error                 \* the exception the top level caught in this run, or "none"

vars == <<pc, run, FRED_API_KEY, i, data, network, recession_predictors, fredmd_data,
          result, csvFile, posFile, log, error>>

IsNone(x) == "none" \in DOMAIN x

\* a file opened with mode 'w' (emptied) by run r whose writing then failed: it holds
\* nothing, or a leading part of what was being written
CutShort(r) == [run |-> r, partial |-> TRUE]

EnvChoices == {Unset, "", "abc123"}

\* ------------------------------------------------------------------ the script
\* a fresh process over the files the earlier runs left
Init ==
    /\ pc = "get_key"
    /\ run = 1
    /\ FRED_API_KEY \in EnvChoices
    /\ i = 1
    /\ data = <<>>
    /\ network = <<>>
    /\ recession_predictors = None
    /\ fredmd_data = None
    /\ result = None
    /\ csvFile = None
    /\ posFile = None
    /\ log = <<"start">>
    /\ error = "none"

\* lines 154-156: the top level catches e, prints it with the hint and ends
Caught(e) ==
    /\ error' = e
    /\ log' = log \o <<"Error", "hint">>
    /\ pc' = "done"

\* lines 33, 8-28: get_recession_predictors asks for the key first
GetKey ==
    /\ pc = "get_key"
    /\ LET k == get_fred_api_key(FRED_API_KEY)
       IN  IF k.ok
           THEN /\ pc' = "fetch"
                /\ log' = Append(log, "key loaded")
                /\ error' = error
           ELSE Caught(k.error)
    /\ UNCHANGED <<run, FRED_API_KEY, i, data, network, recession_predictors, fredmd_data,
                   result, csvFile, posFile>>

\* lines 49-52: one pass of the loop whose get_series call returns
FetchOk ==
    /\ pc = "fetch"
    /\ i <= Len(series)
    /\ network' = Append(network, series[i][1])
    /\ data' = Append(data, FetchedSeries(i))
    /\ log' = Append(log, "downloaded")
    /\ i' = i + 1
    /\ UNCHANGED <<pc, run, FRED_API_KEY, recession_predictors, fredmd_data, result,
                   csvFile, posFile, error>>

\* (variant of FetchFail: the exception of get_series is not caught in the loop)
FetchFailAborts ==
    /\ pc = "fetch"
    /\ i <= Len(series)
    /\ network' = Append(network, series[i][1])
    /\ Caught("Exception")
    /\ UNCHANGED <<run, FRED_API_KEY, i, data, recession_predictors, fredmd_data, result,
                   csvFile, posFile>>

\* lines 49-54: one pass of the loop whose get_series call raises
FetchFail ==
    /\ pc = "fetch"
    /\ i <= Len(series)
    /\ network' = Append(network, series[i][1])
    /\ log' = Append(log, "Failed to download")
    /\ i' = i + 1
    /\ UNCHANGED <<pc, run, FRED_API_KEY, data, recession_predictors, fredmd_data, result,
                   csvFile, posFile, error>>

\* lines 56-62 and 131: the table and its spreads, returned to the top level
Derive ==
    /\ pc = "fetch"
    /\ i > Len(series)
    /\ LET df == derive_features(data)
       IN  IF df.ok
           THEN /\ recession_predictors' = df.value
                /\ pc' = "panel"
                /\ UNCHANGED <<log, error>>
           ELSE /\ Caught(df.error)
                /\ UNCHANGED recession_predictors
    /\ UNCHANGED <<run, FRED_API_KEY, i, data, network, fredmd_data, result, csvFile, posFile>>

\* lines 64-76 and 132: the panel is downloaded and parsed
PanelOk ==
    /\ pc = "panel"
    /\ network' = Append(network, "FRED-MD")
    /\ \E t \in FetchedPanels : fredmd_data' = t
    /\ log' = Append(log, "FRED-MD downloaded")
    /\ pc' = "check"
    /\ UNCHANGED <<run, FRED_API_KEY, i, data, recession_predictors, result, csvFile, posFile,
                   error>>

\* (variant of PanelFail: the exception leaves get_fredmd_data)
PanelFailRaises ==
    /\ pc = "panel"
    /\ network' = Append(network, "FRED-MD")
    /\ fredmd_data' = None
    /\ Caught("Exception")
    /\ UNCHANGED <<run, FRED_API_KEY, i, data, recession_predictors, result, csvFile, posFile>>

\* lines 64-80 and 132: the download or the parse raises, the function returns None
PanelFail ==
    /\ pc = "panel"
    /\ network' = Append(network, "FRED-MD")
    /\ fredmd_data' = None
    /\ log' = Append(log, "Failed to download FRED-MD")
    /\ pc' = "check"
    /\ UNCHANGED <<run, FRED_API_KEY, i, data, recession_predictors, result, csvFile, posFile,
                   error>>

\* the test of line 134
BothPresent(p, f) == ~IsNone(p) /\ ~IsNone(f)

\* lines 134-136: both tables present, the merge is called
Merge ==
    /\ pc = "check"
    /\ BothPresent(recession_predictors, fredmd_data)
    /\ LET r == create_mrf_dataset(recession_predictors, fredmd_data)
       IN  IF r.ok
           THEN /\ result' = r
                /\ pc' = "write_csv"
                /\ UNCHANGED <<log, error>>
           ELSE /\ Caught(r.error)
                /\ UNCHANGED result
    /\ UNCHANGED <<run, FRED_API_KEY, i, data, network, recession_predictors, fredmd_data,
                   csvFile, posFile>>

\* lines 134, 151-152: a table is absent, the failure is reported
SkipMerge ==
    /\ pc = "check"
    /\ ~BothPresent(recession_predictors, fredmd_data)
    /\ log' = Append(log, "Failed to download datasets")
    /\ pc' = "done"
    /\ UNCHANGED <<run, FRED_API_KEY, i, data, network, recession_predictors, fredmd_data,
                   result, csvFile, posFile, error>>

\* line 139: the dataset is written
WriteCsv ==
    /\ pc = "write_csv"
    /\ csvFile' = [run |-> run, table |-> result.mrf_data]
    /\ pc' = "write_json"
    /\ UNCHANGED <<run, FRED_API_KEY, i, data, network, recession_predictors, fredmd_data,
                   result, posFile, log, error>>

\* (variant of WriteCsvFail: the failed write is passed over)
WriteCsvFailIgnored ==
    /\ pc = "write_csv"
    /\ pc' = "write_json"
    /\ UNCHANGED <<run, FRED_API_KEY, i, data, network, recession_predictors, fredmd_data,
                   result, csvFile, posFile, log, error>>

\* line 139: to_csv cannot open the file, which stays as it was
WriteCsvFail ==
    /\ pc = "write_csv"
    /\ Caught("OSError")
    /\ UNCHANGED <<run, FRED_API_KEY, i, data, network, recession_predictors, fredmd_data,
                   result, csvFile, posFile>>

\* line 139: to_csv opens the file, emptying it, and fails while writing
WriteCsvCutShort ==
    /\ pc = "write_csv"
    /\ csvFile' = CutShort(run)
    /\ Caught("OSError")
    /\ UNCHANGED <<run, FRED_API_KEY, i, data, network, recession_predictors, fredmd_data,
                   result, posFile>>

\* lines 141-149: the position map is written and the success is reported
WriteJson ==
    /\ pc = "write_json"
    /\ posFile' = [run |-> run, positions |-> result.positions]
    /\ log' = log \o <<"Success", "preview">>
    /\ pc' = "done"
    /\ UNCHANGED <<run, FRED_API_KEY, i, data, network, recession_predictors, fredmd_data,
                   result, csvFile, error>>

\* line 141: open cannot open the file, which stays as it was
WriteJsonFail ==
    /\ pc = "write_json"
    /\ Caught("OSError")
    /\ UNCHANGED <<run, FRED_API_KEY, i, data, network, recession_predictors, fredmd_data,
                   result, csvFile, posFile>>

\* lines 141-142: open empties the file and json.dump fails while writing
WriteJsonCutShort ==
    /\ pc = "write_json"
    /\ posFile' = CutShort(run)
    /\ Caught("OSError")
    /\ UNCHANGED <<run, FRED_API_KEY, i, data, network, recession_predictors, fredmd_data,
                   result, csvFile>>

\* the script is started again: a new process, the files of data/ as they were left
Rerun ==
    /\ pc = "done"
    /\ run < MaxRuns
    /\ run' = run + 1
    /\ pc' = "get_key"
    /\ FRED_API_KEY' \in EnvChoices
    /\ i' = 1
    /\ data' = <<>>
    /\ network' = <<>>
    /\ recession_predictors' = None
    /\ fredmd_data' = None
    /\ result' = None
    /\ log' = <<"start">>
    /\ error' = "none"
    /\ UNCHANGED <<csvFile, posFile>>

Next ==
    \/ GetKey
    \/ FetchOk
    \/ FetchFail
    \/ Derive
    \/ PanelOk
    \/ PanelFail
    \/ Merge
    \/ SkipMerge
    \/ WriteCsv
    \/ WriteCsvFail
    \/ WriteCsvCutShort
    \/ WriteJson
    \/ WriteJsonFail
    \/ WriteJsonCutShort
    \/ Rerun

Spec == Init /\ [][Next]_vars

\* ------------------------------------------------- the merge called on fixtures
\* create_mrf_dataset is called directly on a predictor table and a panel table
MergeInit ==
    /\ pc = "call"
    /\ run = 1
    /\ FRED_API_KEY = Unset
    /\ i = 1
    /\ data = <<>>
    /\ network = <<>>
    /\ \E pf \in 1..MaxMonth, pl \in 1..MaxMonth, ps \in DayStyles, pg \in GapChoices :
          /\ pf <= pl
          /\ recession_predictors = derive_features(FixtureData(pf, pl, ps, pg)).value
    /\ \E ff \in 1..MaxMonth, fl \in 1..MaxMonth, fs \in DayStyles, fg \in GapChoices,
          cols \in PanelColumnChoices :
          /\ ff <= fl
          /\ fredmd_data = PanelFixture(ff, fl, fs, cols, fg)
    /\ result = None
    /\ csvFile = None
    /\ posFile = None
    /\ log = <<>>
    /\ error = "none"

CallMerge ==
    /\ pc = "call"
    /\ result' = create_mrf_dataset(recession_predictors, fredmd_data)
    /\ pc' = "returned"
    /\ UNCHANGED <<run, FRED_API_KEY, i, data, network, recession_predictors, fredmd_data,
                   csvFile, posFile, log, error>>

MergeNext == CallMerge

MergeSpec == MergeInit /\ [][MergeNext]_vars

\* ------------------------------------------------------------------ claims
\* the timestamps line 91 and line 92 compute for the two tables of the state
Start == start_date(recession_predictors, fredmd_data)

End == end_date(recession_predictors, fredmd_data)

Returned == pc = "returned"

\* the month-end labels of the calendar months from the month of a to the month of b
MonthsBetween(a, b) == {MonthEndOfIndex(k) : k \in MonthIndex(a)..MonthIndex(b)}

\* the names of a panel's columns other than USREC, in the panel's order
WithoutUSREC(cols) == SelectSeq(cols, LAMBDA c : c # "USREC")

\* month b has an observation in every output column: the target, the four X
\* columns and every kept panel column
Observed(t, b, c) == \E d \in t.index : MonthEnd(d) = b /\ t.row[d][c] # NaN

CompleteMonth(b) ==
    /\ \A k \in 1..Len(TargetColumns \o XColumns) :
          Observed(recession_predictors, b,
                   ColumnOf(recession_predictors, (TargetColumns \o XColumns)[k]))
    /\ \A c \in 1..Len(fredmd_data.columns) :
          fredmd_data.columns[c] # "USREC" => Observed(fredmd_data, b, c)

\* C1: when the two time ranges overlap, the merged dataset has exactly one row for
\* every calendar month from the month of start through the month of end in which
\* every column has a value, and no other row.
C1_RowPerOverlapMonth ==
    (Returned /\ Start <= End) =>
        /\ result.ok
        /\ result.mrf_data.index = {b \in MonthsBetween(Start, End) : CompleteMonth(b)}

\* C2 as stated: y_pos = 0, x_pos = [1, 2, 3, 4], S_pos is the contiguous range that
\* starts at 5, and max(S_pos) = total_columns - 1.
C2_MaxSposIsLastColumn ==
    (Returned /\ result.ok) =>
        LET p == result.positions
            total_columns == Len(result.mrf_data.columns)
        IN  /\ p.y_pos = 0
            /\ p.x_pos = <<1, 2, 3, 4>>
            /\ Len(p.S_pos) >= 1
            /\ \A k \in 1..Len(p.S_pos) : p.S_pos[k] = 4 + k
            /\ p.S_pos[Len(p.S_pos)] = total_columns - 1

\* C2 as amended: y_pos = 0, x_pos = [1, 2, 3, 4], S_pos is the contiguous range
\* 5 .. total_columns - 1, empty exactly when the panel has no column other than
\* USREC; the three together hold each column index 0 .. total_columns - 1 once.
C2_PositionMap ==
    (Returned /\ result.ok) =>
        LET p == result.positions
            total_columns == Len(result.mrf_data.columns)
        IN  /\ p.y_pos = 0
            /\ p.x_pos = <<1, 2, 3, 4>>
            /\ \A k \in 1..Len(p.S_pos) : p.S_pos[k] = 4 + k
            /\ Len(p.S_pos) = total_columns - 5
            /\ (Len(p.S_pos) = 0) = (WithoutUSREC(fredmd_data.columns) = <<>>)
            /\ Len(p.S_pos) >= 1 => p.S_pos[Len(p.S_pos)] = total_columns - 1
            /\ {p.y_pos} \cup Elems(p.x_pos) \cup Elems(p.S_pos) = 0..(total_columns - 1)
            /\ 1 + Len(p.x_pos) + Len(p.S_pos) = total_columns

C2_Witness ==
    /\ Returned
    /\ result.ok
    /\ result.mrf_data.index # {}
    /\ result.positions.S_pos = <<5, 6>>
    /\ "USREC" \in Elems(fredmd_data.columns)

\* C3: the output columns are recession_indicator, the four X columns in their fixed
\* order, then the panel's columns in the panel's order without USREC; a panel
\* without a USREC column is merged without error and keeps all its columns.
C3_ColumnOrder ==
    Returned =>
        /\ result.ok
        /\ result.mrf_data.columns =
              <<"recession_indicator", "unemployment_rate", "yield_spread", "credit_spread",
                "industrial_production">> \o WithoutUSREC(fredmd_data.columns)
        /\ \A k \in 6..Len(result.mrf_data.columns) : result.mrf_data.columns[k] # "USREC"
        /\ "USREC" \notin Elems(fredmd_data.columns) =>
              SubSeq(result.mrf_data.columns, 6, Len(result.mrf_data.columns)) = fredmd_data.columns

C3_Witness ==
    /\ Returned
    /\ result.ok
    /\ fredmd_data.columns = <<"RPI", "USREC", "INDPRO">>
    /\ Len(result.mrf_data.columns) = 7
    /\ result.mrf_data.index # {}

\* C8: two tables with disjoint time ranges (start later than end) give an error or
\* a dataset without rows, never a dataset with a row.
C8_DisjointGivesNoRow ==
    (Returned /\ Start > End) => (~result.ok \/ result.mrf_data.index = {})

C8_Witness ==
    /\ Returned
    /\ Start > End
    /\ SetMax(recession_predictors.index) < SetMin(fredmd_data.index)
    /\ result.ok
    /\ result.mrf_data.index = {}

\* ------------------------------------------------------- claims about a run
\* the column names of the dict `data`, in insertion order
Names(d) == [k \in 1..Len(d) |-> d[k][1]]

Fetched(name) == name \in Elems(Names(data))

\* the file was opened for writing by the current run (written whole or cut short)
WroteThisRun(f) == ~IsNone(f) /\ f.run = run

\* the file holds everything its writer meant to write
Complete(f) == ~IsNone(f) /\ "partial" \notin DOMAIN f

CredentialMissing == FRED_API_KEY \in {Unset, ""}

\* the run is past the fetch loop (the credential was present)
LoopDone == pc \notin {"get_key", "fetch"} /\ error # "ValueError"

\* what the loop printed for the k-th identifier (after "start" and "key loaded")
Printed(k) == log[k + 2]

\* the column names of the identifiers among the first n whose download was reported
ReportedNames(n) ==
    LET ok == SelectSeq([k \in 1..n |-> k], LAMBDA k : Printed(k) = "downloaded")
    IN  [j \in 1..Len(ok) |-> series[ok[j]][2]]

SpreadBaseMissing ==
    \E name \in {"treasury_10y", "treasury_3m", "baa_corporate_yield", "aaa_corporate_yield"} :
        ~Fetched(name)

\* C4: with the credential unset or empty, the run makes no remote request, fetches
\* nothing, merges nothing and writes no file; it ends with the caught ValueError
\* and its message.
C4_MissingKeyNoNetwork ==
    CredentialMissing =>
        /\ pc \in {"get_key", "done"}
        /\ network = <<>>
        /\ data = <<>>
        /\ IsNone(recession_predictors) /\ IsNone(fredmd_data) /\ IsNone(result)
        /\ ~WroteThisRun(csvFile) /\ ~WroteThisRun(posFile)
        /\ pc = "done" => (error = "ValueError" /\ log = <<"start", "Error", "hint">>)

C4_Witness ==
    /\ pc = "done"
    /\ FRED_API_KEY = ""
    /\ error = "ValueError"
    /\ network = <<>>

\* C5: the eight identifiers are requested once each, in the order of `series`,
\* whatever the earlier outcomes; a failure is reported and its column left out; the
\* table's base columns are exactly those of the identifiers that were downloaded.
C5_EveryIdentifierOnce ==
    (pc = "fetch" \/ LoopDone) =>
        LET n == i - 1
        IN  /\ Len(network) >= n
            /\ SubSeq(network, 1, n) = [k \in 1..n |-> series[k][1]]
            /\ \A k \in (n + 1)..Len(network) : network[k] = "FRED-MD"
            /\ pc # "fetch" => n = 8
            /\ \A k \in 1..n : Printed(k) \in {"downloaded", "Failed to download"}
            /\ Names(data) = ReportedNames(n)
            /\ ~IsNone(recession_predictors) =>
                  recession_predictors.columns = Names(data) \o <<"yield_spread", "credit_spread">>

C5_Witness ==
    /\ pc = "panel"
    /\ Len(network) = 8
    /\ Names(data) = <<"recession_indicator", "industrial_production", "unemployment_rate",
                       "treasury_10y", "treasury_3m", "baa_corporate_yield",
                       "aaa_corporate_yield">>
    /\ Printed(3) = "Failed to download"

\* C6: when a base series of a spread was not fetched, the derivation fails with the
\* KeyError after all eight requests; no predictor table is returned, the panel is
\* not requested, nothing is merged and no file is written in that run.
C6_MissingBaseIsFatal ==
    (LoopDone /\ SpreadBaseMissing) =>
        /\ pc = "done"
        /\ error = "KeyError"
        /\ network = [k \in 1..8 |-> series[k][1]]
        /\ IsNone(recession_predictors) /\ IsNone(fredmd_data) /\ IsNone(result)
        /\ ~WroteThisRun(csvFile) /\ ~WroteThisRun(posFile)

C6_Witness ==
    /\ pc = "done"
    /\ error = "KeyError"
    /\ Len(data) = 7
    /\ ~Fetched("treasury_3m")
    /\ Len(network) = 8

PanelFetchFailed ==
    /\ network # <<>>
    /\ network[Len(network)] = "FRED-MD"
    /\ IsNone(fredmd_data)

\* C7: a failed panel download raises nothing: the panel is None, the top level does
\* not call create_mrf_dataset, writes neither file and reports the failed download.
C7_PanelFailureIsAbsence ==
    PanelFetchFailed =>
        /\ error = "none"
        /\ pc \in {"check", "done"}
        /\ IsNone(result)
        /\ ~WroteThisRun(csvFile) /\ ~WroteThisRun(posFile)
        /\ pc = "done" => log[Len(log)] = "Failed to download datasets"

C7_Witness ==
    /\ pc = "done"
    /\ PanelFetchFailed
    /\ ~IsNone(recession_predictors)
    /\ log[Len(log)] = "Failed to download datasets"

\* the position map that describes a dataset of that shape
PositionsOf(table) ==
    [y_pos |-> 0, x_pos |-> <<1, 2, 3, 4>>, S_pos |-> Range(5, Len(table.columns))]

\* C9 as stated: at the end of any run the positions file on disk describes the
\* dataset file on disk.
C9_PositionsDescribeDataset ==
    (pc = "done" /\ ~IsNone(posFile)) =>
        /\ Complete(posFile)
        /\ Complete(csvFile)
        /\ posFile.positions = PositionsOf(csvFile.table)

\* C9 as amended: the positions file is opened for writing only after the dataset
\* file was written whole in the same run, from the result of the one
\* create_mrf_dataset call, so a positions file written whole by the current run
\* describes the dataset file; a positions file is never newer than the dataset file.
C9_PositionsAfterDataset ==
    /\ WroteThisRun(posFile) =>
          /\ WroteThisRun(csvFile)
          /\ Complete(csvFile)
          /\ csvFile.table = result.mrf_data
    /\ (WroteThisRun(posFile) /\ Complete(posFile)) =>
          /\ posFile.positions = result.positions
          /\ posFile.positions = PositionsOf(csvFile.table)
    /\ ~IsNone(posFile) => (~IsNone(csvFile) /\ posFile.run <= csvFile.run)
    /\ pc \in {"get_key", "fetch", "panel", "check", "write_csv"} =>
          (~WroteThisRun(csvFile) /\ ~WroteThisRun(posFile))

C9_Witness ==
    /\ pc = "done"
    /\ run = 2
    /\ WroteThisRun(posFile) /\ Complete(posFile)
    /\ WroteThisRun(csvFile) /\ Complete(csvFile)
    /\ Len(csvFile.table.columns) = 7

\* C10: a run writes a file only if the credential was present, the panel was
\* fetched and every series but PAYEMS was fetched; a missing USREC, UNRATE or INDPRO
\* passes the fetch stage and fails the column selection of the merge, a missing
\* spread base fails the derivation, and either way the run ends with the error
\* caught and no file written.
C10_WritesOnlyIfAllButPayrolls ==
    /\ (WroteThisRun(csvFile) \/ WroteThisRun(posFile)) =>
          /\ ~CredentialMissing
          /\ ~IsNone(fredmd_data)
          /\ \A k \in 1..8 : series[k][1] # "PAYEMS" => Fetched(series[k][2])
    /\ (pc = "done" /\ LoopDone /\ ~SpreadBaseMissing /\ ~IsNone(fredmd_data)
          /\ (~Fetched("recession_indicator") \/ ~Fetched("unemployment_rate")
                \/ ~Fetched("industrial_production"))) =>
          /\ ~IsNone(recession_predictors)
          /\ error = "KeyError"
          /\ IsNone(result)
          /\ ~WroteThisRun(csvFile) /\ ~WroteThisRun(posFile)
    /\ (LoopDone /\ SpreadBaseMissing) =>
          /\ pc = "done"
          /\ error = "KeyError"
          /\ IsNone(recession_predictors)
          /\ ~WroteThisRun(csvFile) /\ ~WroteThisRun(posFile)

C10_Witness ==
    /\ pc = "done"
    /\ error = "none"
    /\ WroteThisRun(csvFile) /\ Complete(csvFile)
    /\ WroteThisRun(posFile) /\ Complete(posFile)
    /\ ~Fetched("nonfarm_payrolls")
    /\ Len(data) = 7
====
